---- MODULE Spec2Model ----
(***************************************************************************)
(* validate_ip (src/validate-ip.c, lines 20-114) as a state machine.       *)
(*                                                                         *)
(* A character is its value as a plain char converted to int: '0' is 48,   *)
(* '.' is 46, and a byte above 127 is negative where char is signed.  A C  *)
(* string is the sequence of its characters without the terminator; a      *)
(* buffer is the sequence of the bytes written to it, terminators          *)
(* included.  A pointer into a buffer is [buf |-> owner, pos |-> index],   *)
(* and buf = 0 is the null pointer.  Every local of validate_ip is a       *)
(* function of the calling thread; the position strtok keeps between calls *)
(* is one variable for the whole process.                                  *)
(***************************************************************************)
EXTENDS Integers, Sequences, FiniteSets, TLC

VARIABLES pc, ip, len, ip_copy, dot_count, i, token, octet_count, num, temp,
          result, retLine, strtok_save

vars == <<pc, ip, len, ip_copy, dot_count, i, token, octet_count, num, temp,
          result, retLine, strtok_save>>

(***************************************************************************)
(* Program constants.                                                      *)
(***************************************************************************)
NUL == 0
DOT == 46
CH_0 == 48
CH_9 == 57
CH_PLUS == 43
CH_MINUS == 45
EOF_VALUE == -1
MIN_LEN == 7
MAX_LEN == 15
IP_COPY_SIZE == 16
TEMP_SIZE == 4
DOTS == 3
OCTETS == 4
OCTET_MAX == 255

Limb == 2 ^ 16
INT_MAX == (2 ^ 15 - 1) * Limb + (Limb - 1)
INT_MIN == (0 - INT_MAX) - 1

NullPtr == [buf |-> 0, pos |-> 0]
NullArg == [isNull |-> TRUE, str |-> <<>>]
StrArg(s) == [isNull |-> FALSE, str |-> s]

(***************************************************************************)
(* Bounds of the checked input space.                                      *)
(***************************************************************************)
MaxShortLen == 8
MaxOctetVal == 300
MaxLongLen == 18
MaxSegs == 5

(***************************************************************************)
(* Library functions, as the C library computes them.                      *)
(***************************************************************************)

\* strlen(s)
StrLen(s) == Len(s)

\* the string a pointer into buffer mem designates: up to the first NUL
CStr(mem, pos) ==
    LET e == CHOOSE e \in pos..Len(mem) :
                 mem[e] = NUL /\ \A k \in pos..(e - 1) : mem[k] # NUL
    IN  SubSeq(mem, pos, e - 1)

\* isdigit(c): defined for the values of unsigned char and for EOF; for any
\* other argument (a negative char) the behaviour is undefined: the outcomes
\* are a zero answer, a nonzero answer (a read before the classification
\* table) and a fault (a checked C runtime).
IsDigitDefined(c) == c >= EOF_VALUE /\ c <= 255
IsDigitOutcomes(c) ==
    IF IsDigitDefined(c)
    THEN {IF c >= CH_0 /\ c <= CH_9 THEN "nonzero" ELSE "zero"}
    ELSE {"zero", "nonzero", "fault"}

IsSpace(c) == c \in {32, 9, 10, 11, 12, 13}
IsAsciiDigit(c) == c >= CH_0 /\ c <= CH_9

RECURSIVE SkipSpace(_)
SkipSpace(s) ==
    IF s # <<>> /\ IsSpace(s[1]) THEN SkipSpace(Tail(s)) ELSE s

RECURSIVE DigitRun(_)
DigitRun(s) ==
    IF s # <<>> /\ IsAsciiDigit(s[1]) THEN <<s[1]>> \o DigitRun(Tail(s)) ELSE <<>>

\* the decimal accumulation of strtol, kept in two 16-bit limbs: the value
\* modulo 2^32 is hi * 2^16 + lo, and ovf says that 2^32 was passed
RECURSIVE Accumulate(_, _)
Accumulate(digs, acc) ==
    IF digs = <<>> THEN acc
    ELSE LET loX == acc.lo * 10 + (digs[1] - CH_0)
             hiX == acc.hi * 10 + (loX \div Limb)
         IN  Accumulate(Tail(digs),
                        [hi  |-> hiX % Limb,
                         lo  |-> loX % Limb,
                         ovf |-> acc.ovf \/ hiX >= Limb])

\* the 32 bits hi:lo read as a signed int
Signed(hi, lo) ==
    IF hi >= Limb \div 2 THEN (hi - Limb) * Limb + lo ELSE hi * Limb + lo

Negate(n) == IF n = INT_MIN THEN INT_MIN ELSE 0 - n

\* atoi(s) == (int) strtol(s, NULL, 10).  A value no int holds is undefined
\* behaviour: where long is 64 bits the conversion to int keeps the low 32
\* bits, where long is 32 bits strtol saturates.
AtoiOutcomes(s) ==
    LET s1   == SkipSpace(s)
        neg  == s1 # <<>> /\ s1[1] = CH_MINUS
        s2   == IF s1 # <<>> /\ s1[1] \in {CH_PLUS, CH_MINUS} THEN Tail(s1) ELSE s1
        acc  == Accumulate(DigitRun(s2), [hi |-> 0, lo |-> 0, ovf |-> FALSE])
        mag  == Signed(acc.hi, acc.lo)
        over == acc.ovf \/ acc.hi >= Limb \div 2
        wrap == IF neg THEN Negate(mag) ELSE mag
    IN  IF over THEN {wrap, IF neg THEN INT_MIN ELSE INT_MAX} ELSE {wrap}

\* sprintf(temp, "%d", n): the characters written, terminator included
RECURSIVE Digits(_)
Digits(n) ==
    IF n < 10 THEN <<CH_0 + n>> ELSE Digits(n \div 10) \o <<CH_0 + (n % 10)>>

Sprintf_d(n) ==
    IF n >= 0 THEN Digits(n) \o <<NUL>>
    ELSE IF n = INT_MIN
         THEN <<CH_MINUS>> \o Digits(INT_MAX \div 10) \o <<CH_0 + 8, NUL>>
         ELSE <<CH_MINUS>> \o Digits(0 - n) \o <<NUL>>

\* strcmp(a, b): bytes compared as unsigned char
Unsigned(c) == IF c < 0 THEN c + 256 ELSE c
RECURSIVE StrCmp(_, _)
StrCmp(a, b) ==
    IF a = <<>> /\ b = <<>> THEN 0
    ELSE IF a = <<>> THEN -1
    ELSE IF b = <<>> THEN 1
    ELSE IF a[1] # b[1] THEN (IF Unsigned(a[1]) < Unsigned(b[1]) THEN -1 ELSE 1)
    ELSE StrCmp(Tail(a), Tail(b))

\* strtok(s, "."), started at pos of buffer mem (strtok_r of the C library):
\* skip the delimiters, return NULL at the end of the string, otherwise end
\* the token with a NUL written over its delimiter and keep the place after it
FirstNot(mem, pos) == CHOOSE s \in pos..Len(mem) :
                          mem[s] # DOT /\ \A k \in pos..(s - 1) : mem[k] = DOT
FirstOf(mem, pos) == CHOOSE e \in pos..Len(mem) :
                         mem[e] \in {DOT, NUL} /\ \A k \in pos..(e - 1) : mem[k] \notin {DOT, NUL}
Strtok(mem, pos) ==
    LET s == FirstNot(mem, pos)
        e == FirstOf(mem, s)
    IN  IF mem[pos] = NUL THEN [tok |-> 0, mem |-> mem, save |-> pos]
        ELSE IF mem[s] = NUL THEN [tok |-> 0, mem |-> mem, save |-> s]
        ELSE IF mem[e] = NUL THEN [tok |-> s, mem |-> mem, save |-> e]
        ELSE [tok |-> s, mem |-> [mem EXCEPT ![e] = NUL], save |-> e + 1]

(***************************************************************************)
(* The conditions validate_ip tests.                                       *)
(***************************************************************************)
\* Each condition is preceded by the variants of it that a slip in the code
\* would give; the claims below are checked to tell them from the condition.

\* line 35
LengthOutOfBounds_ShortByOne(n) == n < MIN_LEN - 1 \/ n > MAX_LEN
LengthOutOfBounds_BufferSize(n) == n < MIN_LEN \/ n > IP_COPY_SIZE
LengthOutOfBounds(n) == n < MIN_LEN \/ n > MAX_LEN

\* line 61
WrongDotCount_TooFewOnly(n) == n < DOTS
WrongDotCount(n) == n # DOTS

\* line 73
EmptyOctet(tok) == StrLen(tok) = 0

\* line 80
LeadingZero_AnyLength(tok) == tok[1] = CH_0
LeadingZero_Never(tok) == FALSE
LeadingZero(tok) == StrLen(tok) > 1 /\ tok[1] = CH_0

\* line 88
OutOfRange_Exclusive(n) == n < 0 \/ n >= OCTET_MAX
OutOfRange(n) == n < 0 \/ n > OCTET_MAX

\* line 97
RoundTripMismatch_Prefix(tmp, tok) ==
    StrCmp(CStr(tmp, 1), SubSeq(tok, 1, StrLen(CStr(tmp, 1)))) # 0
RoundTripMismatch(tmp, tok) == StrCmp(CStr(tmp, 1), tok) # 0

\* line 71
LoopContinues(tok, n) == tok # NullPtr /\ n < OCTETS

\* line 108
WrongOctetCount_TooManyOnly(n) == n > OCTETS
WrongOctetCount(n) == n # OCTETS

(***************************************************************************)
(* Pointers.  The buffer ip_copy of a call that has returned is dead: a    *)
(* read through a pointer into it is undefined behaviour, whose outcomes   *)
(* are the bytes the call left there and a fault.                          *)
(***************************************************************************)
Threads == DOMAIN pc
Returned(t) == pc[t] = "done"
Dangling(p) == p.buf # 0 /\ Returned(p.buf)
DerefOutcomes(p) == IF Dangling(p) THEN {"stale", "fault"} ELSE {"ok"}
TokenStr(t) == CStr(ip_copy[token[t].buf], token[t].pos)

\* thread t is at label; a fault ends the process, and with it every thread
At(t, label) ==
    t \in Threads /\ pc[t] = label /\ \A u \in Threads : pc[u] # "fault"

Return(t, value, line) ==
    /\ pc' = [pc EXCEPT ![t] = "done"]
    /\ result' = [result EXCEPT ![t] = value]
    /\ retLine' = [retLine EXCEPT ![t] = line]

Goto(t, label) ==
    /\ pc' = [pc EXCEPT ![t] = label]
    /\ UNCHANGED <<result, retLine>>

Fault(t) ==
    /\ pc' = [pc EXCEPT ![t] = "fault"]
    /\ UNCHANGED <<result, retLine>>

(***************************************************************************)
(* validate_ip, one action per statement.                                  *)
(***************************************************************************)

\* lines 23-25
NullCheck(t) ==
    /\ At(t, "L23")
    /\ IF ip[t].isNull THEN Return(t, 0, 24) ELSE Goto(t, "L30")
    /\ UNCHANGED <<ip, len, ip_copy, dot_count, i, token, octet_count, num,
                   temp, strtok_save>>

\* line 30
TakeLength(t) ==
    /\ At(t, "L30")
    /\ len' = [len EXCEPT ![t] = StrLen(ip[t].str)]
    /\ Goto(t, "L35")
    /\ UNCHANGED <<ip, ip_copy, dot_count, i, token, octet_count, num, temp,
                   strtok_save>>

\* lines 35-37
LengthGate(t) ==
    /\ At(t, "L35")
    /\ IF LengthOutOfBounds(len[t]) THEN Return(t, 0, 36) ELSE Goto(t, "L41")
    /\ UNCHANGED <<ip, len, ip_copy, dot_count, i, token, octet_count, num,
                   temp, strtok_save>>

\* lines 41-51: strcpy, dot_count = 0, and the loop's i = 0
CopyInput(t) ==
    /\ At(t, "L41")
    /\ ip_copy' = [ip_copy EXCEPT ![t] = ip[t].str \o <<NUL>>]
    /\ dot_count' = [dot_count EXCEPT ![t] = 0]
    /\ i' = [i EXCEPT ![t] = 0]
    /\ Goto(t, "L51")
    /\ UNCHANGED <<ip, len, token, octet_count, num, temp, strtok_save>>

\* lines 51-58: one test of the loop condition and one iteration.  ip[i] of
\* the C code is ip[t].str[i[t] + 1] here.
ScanChar(t) ==
    /\ At(t, "L51")
    /\ IF i[t] < len[t]
       THEN LET c == ip[t].str[i[t] + 1]
            IN  IF c = DOT
                THEN /\ dot_count' = [dot_count EXCEPT ![t] = @ + 1]
                     /\ i' = [i EXCEPT ![t] = @ + 1]
                     /\ Goto(t, "L51")
                ELSE \E o \in IsDigitOutcomes(c) :
                        /\ UNCHANGED dot_count
                        /\ CASE o = "nonzero" -> /\ i' = [i EXCEPT ![t] = @ + 1]
                                                 /\ Goto(t, "L51")
                             [] o = "zero"    -> /\ UNCHANGED i
                                                 /\ Return(t, 0, 56)
                             [] o = "fault"   -> /\ UNCHANGED i
                                                 /\ Fault(t)
       ELSE /\ Goto(t, "L61")
            /\ UNCHANGED <<dot_count, i>>
    /\ UNCHANGED <<ip, len, ip_copy, token, octet_count, num, temp, strtok_save>>

\* lines 61-63
DotCountCheck(t) ==
    /\ At(t, "L61")
    /\ IF WrongDotCount(dot_count[t]) THEN Return(t, 0, 62) ELSE Goto(t, "L67")
    /\ UNCHANGED <<ip, len, ip_copy, dot_count, i, token, octet_count, num,
                   temp, strtok_save>>

\* lines 67-68: token = strtok(ptr, "."), octet_count = 0
StrtokFirst(t) ==
    /\ At(t, "L67")
    /\ LET r == Strtok(ip_copy[t], 1)
       IN  /\ ip_copy' = [ip_copy EXCEPT ![t] = r.mem]
           /\ strtok_save' = [buf |-> t, pos |-> r.save]
           /\ token' = [token EXCEPT ![t] =
                          IF r.tok = 0 THEN NullPtr ELSE [buf |-> t, pos |-> r.tok]]
    /\ octet_count' = [octet_count EXCEPT ![t] = 0]
    /\ Goto(t, "L71")
    /\ UNCHANGED <<ip, len, dot_count, i, num, temp>>

\* line 71
LoopTest(t) ==
    /\ At(t, "L71")
    /\ IF LoopContinues(token[t], octet_count[t]) THEN Goto(t, "L73") ELSE Goto(t, "L108")
    /\ UNCHANGED <<ip, len, ip_copy, dot_count, i, token, octet_count, num,
                   temp, strtok_save>>

\* lines 73-75
EmptyOctetCheck(t) ==
    /\ At(t, "L73")
    /\ \E o \in DerefOutcomes(token[t]) :
          IF o = "fault" THEN Fault(t)
          ELSE IF EmptyOctet(TokenStr(t)) THEN Return(t, 0, 74) ELSE Goto(t, "L80")
    /\ UNCHANGED <<ip, len, ip_copy, dot_count, i, token, octet_count, num,
                   temp, strtok_save>>

\* lines 80-82
LeadingZeroCheck(t) ==
    /\ At(t, "L80")
    /\ \E o \in DerefOutcomes(token[t]) :
          IF o = "fault" THEN Fault(t)
          ELSE IF LeadingZero(TokenStr(t)) THEN Return(t, 0, 81) ELSE Goto(t, "L85")
    /\ UNCHANGED <<ip, len, ip_copy, dot_count, i, token, octet_count, num,
                   temp, strtok_save>>

\* line 85
Atoi(t) ==
    /\ At(t, "L85")
    /\ \E o \in DerefOutcomes(token[t]) :
          IF o = "fault"
          THEN Fault(t) /\ UNCHANGED num
          ELSE \E n \in AtoiOutcomes(TokenStr(t)) :
                  /\ num' = [num EXCEPT ![t] = n]
                  /\ Goto(t, "L88")
    /\ UNCHANGED <<ip, len, ip_copy, dot_count, i, token, octet_count, temp,
                   strtok_save>>

\* lines 88-90
RangeCheck(t) ==
    /\ At(t, "L88")
    /\ IF OutOfRange(num[t]) THEN Return(t, 0, 89) ELSE Goto(t, "L96")
    /\ UNCHANGED <<ip, len, ip_copy, dot_count, i, token, octet_count, num,
                   temp, strtok_save>>

\* lines 95-96
Sprintf(t) ==
    /\ At(t, "L96")
    /\ temp' = [temp EXCEPT ![t] = Sprintf_d(num[t])]
    /\ Goto(t, "L97")
    /\ UNCHANGED <<ip, len, ip_copy, dot_count, i, token, octet_count, num,
                   strtok_save>>

\* lines 97-99
RoundTripCheck(t) ==
    /\ At(t, "L97")
    /\ \E o \in DerefOutcomes(token[t]) :
          IF o = "fault" THEN Fault(t)
          ELSE IF RoundTripMismatch(temp[t], TokenStr(t))
               THEN Return(t, 0, 98) ELSE Goto(t, "L102")
    /\ UNCHANGED <<ip, len, ip_copy, dot_count, i, token, octet_count, num,
                   temp, strtok_save>>

\* lines 102-103: token = strtok(NULL, "."), octet_count++
StrtokNext(t) ==
    /\ At(t, "L102")
    /\ \E o \in DerefOutcomes(strtok_save) :
          IF o = "fault"
          THEN Fault(t) /\ UNCHANGED <<ip_copy, strtok_save, token, octet_count>>
          ELSE LET b == strtok_save.buf
                   r == Strtok(ip_copy[b], strtok_save.pos)
               IN  /\ ip_copy' = [ip_copy EXCEPT ![b] = r.mem]
                   /\ strtok_save' = [buf |-> b, pos |-> r.save]
                   /\ token' = [token EXCEPT ![t] =
                                  IF r.tok = 0 THEN NullPtr ELSE [buf |-> b, pos |-> r.tok]]
                   /\ octet_count' = [octet_count EXCEPT ![t] = @ + 1]
                   /\ Goto(t, "L71")
    /\ UNCHANGED <<ip, len, dot_count, i, num, temp>>

\* lines 108-113
OctetCountCheck(t) ==
    /\ At(t, "L108")
    /\ IF WrongOctetCount(octet_count[t]) THEN Return(t, 0, 109) ELSE Return(t, 1, 113)
    /\ UNCHANGED <<ip, len, ip_copy, dot_count, i, token, octet_count, num,
                   temp, strtok_save>>

(***************************************************************************)
(* The candidates checked.  Txt(<<2, 5, 5>>) is the string "255".          *)
(***************************************************************************)
Txt(ds) == [k \in 1..Len(ds) |-> CH_0 + ds[k]]
Repeat(c, n) == [k \in 1..n |-> c]

RECURSIVE Join(_)
Join(segs) ==
    IF Len(segs) = 0 THEN <<>>
    ELSE IF Len(segs) = 1 THEN segs[1]
    ELSE segs[1] \o <<DOT>> \o Join(Tail(segs))

\* every string of '0', '1' and '.' up to MaxShortLen characters
ShortStrings ==
    UNION {[1..n -> {CH_0, CH_0 + 1, DOT}] : n \in 0..MaxShortLen}

\* four segments, each of "", "0", "1", "00", "01", "007", "10", "255", "256"
DigitSegs ==
    {<<>>, Txt(<<0>>), Txt(<<1>>), Txt(<<0, 0>>), Txt(<<0, 1>>), Txt(<<0, 0, 7>>),
     Txt(<<1, 0>>), Txt(<<2, 5, 5>>), Txt(<<2, 5, 6>>)}
DigitQuads == {Join(q) : q \in [1..4 -> DigitSegs]}

\* one segment with a character that is no ASCII digit: 'a' (97), ' ' (32),
\* '-', '+', the byte 0xC3 (-61 as a signed char) and the byte 0xFF (-1)
OddSegs ==
    {<<97>>, <<CH_0 + 1, 97>>, <<97, CH_0 + 1>>, <<32, CH_0 + 1>>, <<CH_0 + 1, 32>>,
     <<CH_MINUS, CH_0 + 1>>, <<CH_PLUS, CH_0 + 1>>,
     <<-61>>, <<CH_0 + 1, -61>>, <<-61, CH_0 + 1>>, <<-1>>}
PlainSegs == {Txt(<<0>>), Txt(<<1>>), Txt(<<2, 5, 5>>)}
OddQuads ==
    {Join([q EXCEPT ![p] = o]) : q \in [1..4 -> PlainSegs], p \in 1..4, o \in OddSegs}

\* one segment running over 0..MaxOctetVal in canonical form, the others
\* all "0" or all "255"
OctetSweep ==
    {Join([[k \in 1..4 |-> b] EXCEPT ![p] = Digits(v)]) :
        b \in {Txt(<<0>>), Txt(<<2, 5, 5>>)}, p \in 1..4, v \in 0..MaxOctetVal}

\* 1..MaxSegs segments, each of "", "0", "1", "255"
Joined ==
    UNION {{Join(q) : q \in [1..k -> {<<>>, Txt(<<0>>), Txt(<<1>>), Txt(<<2, 5, 5>>)}]} :
              k \in 1..MaxSegs}

\* strings of dots and of digits of every length up to MaxLongLen, and
\* "255.255.255." followed by 4 and more digits
LongStrings ==
    {Repeat(c, n) : c \in {DOT, CH_0 + 1}, n \in 0..MaxLongLen}
      \cup {Join(<<Txt(<<2, 5, 5>>), Txt(<<2, 5, 5>>), Txt(<<2, 5, 5>>), Repeat(CH_0 + 1, n)>>) :
               n \in 4..(MaxLongLen - 12)}

\* a segment at and beyond the limits of int, the other segments "" or "0":
\* 2147483647, 2147483648, 4294967295, 4294967296, 4294967297, 4294967551,
\* 4294967552, 8589934592, 4294967338, 42949672960, 999999999999
BigSegs ==
    {Txt(<<2, 1, 4, 7, 4, 8, 3, 6, 4, 7>>), Txt(<<2, 1, 4, 7, 4, 8, 3, 6, 4, 8>>),
     Txt(<<4, 2, 9, 4, 9, 6, 7, 2, 9, 5>>), Txt(<<4, 2, 9, 4, 9, 6, 7, 2, 9, 6>>),
     Txt(<<4, 2, 9, 4, 9, 6, 7, 2, 9, 7>>), Txt(<<4, 2, 9, 4, 9, 6, 7, 5, 5, 1>>),
     Txt(<<4, 2, 9, 4, 9, 6, 7, 5, 5, 2>>), Txt(<<8, 5, 8, 9, 9, 3, 4, 5, 9, 2>>),
     Txt(<<4, 2, 9, 4, 9, 6, 7, 3, 3, 8>>), Txt(<<4, 2, 9, 4, 9, 6, 7, 2, 9, 6, 0>>),
     Txt(<<9, 9, 9, 9, 9, 9, 9, 9, 9, 9, 9, 9>>)}
BigQuads ==
    {Join([q EXCEPT ![p] = b]) :
        q \in [1..4 -> {<<>>, Txt(<<0>>)}], p \in 1..4, b \in BigSegs}

Inputs ==
    {NullArg} \cup
    {StrArg(s) : s \in ShortStrings \cup DigitQuads \cup OddQuads \cup OctetSweep
                        \cup Joined \cup LongStrings \cup BigQuads}

\* the candidates of two concurrent calls: "1.1.1.1", "1.1.1.256", "1.1....",
\* "01.1.1.1" and "10.0.0.1"
ConcInputs ==
    {StrArg(Join(<<Txt(<<1>>), Txt(<<1>>), Txt(<<1>>), Txt(<<1>>)>>)),
     StrArg(Join(<<Txt(<<1>>), Txt(<<1>>), Txt(<<1>>), Txt(<<2, 5, 6>>)>>)),
     StrArg(Join(<<Txt(<<1>>), Txt(<<1>>), <<>>, <<>>>>) \o <<DOT, DOT>>),
     StrArg(Join(<<Txt(<<0, 1>>), Txt(<<1>>), Txt(<<1>>), Txt(<<1>>)>>)),
     StrArg(Join(<<Txt(<<1, 0>>), Txt(<<0>>), Txt(<<0>>), Txt(<<1>>)>>))}

(***************************************************************************)
(* The specifications: one call of validate_ip (Spec), and two calls on    *)
(* two threads of one process (ConcSpec).                                  *)
(***************************************************************************)
InitFor(T, args) ==
    /\ pc = [t \in T |-> "L23"]
    /\ ip \in [T -> args]
    /\ len = [t \in T |-> 0]
    /\ ip_copy = [t \in T |-> <<>>]
    /\ dot_count = [t \in T |-> 0]
    /\ i = [t \in T |-> 0]
    /\ token = [t \in T |-> NullPtr]
    /\ octet_count = [t \in T |-> 0]
    /\ num = [t \in T |-> 0]
    /\ temp = [t \in T |-> <<>>]
    /\ result = [t \in T |-> -1]
    /\ retLine = [t \in T |-> 0]
    /\ strtok_save = NullPtr

ThreadIds == {1, 2}
Init == InitFor({1}, Inputs)
ConcInit == InitFor(ThreadIds, ConcInputs)

Next ==
    \E t \in ThreadIds :
        \/ NullCheck(t)
        \/ TakeLength(t)
        \/ LengthGate(t)
        \/ CopyInput(t)
        \/ ScanChar(t)
        \/ DotCountCheck(t)
        \/ StrtokFirst(t)
        \/ LoopTest(t)
        \/ EmptyOctetCheck(t)
        \/ LeadingZeroCheck(t)
        \/ Atoi(t)
        \/ RangeCheck(t)
        \/ Sprintf(t)
        \/ RoundTripCheck(t)
        \/ StrtokNext(t)
        \/ OctetCountCheck(t)

Spec == Init /\ [][Next]_vars
ConcSpec == ConcInit /\ [][Next]_vars

(***************************************************************************)
(* What the claims speak of, stated on the candidate text alone.           *)
(***************************************************************************)

\* the segments between the dots, empty ones included
RECURSIVE Split(_)
Split(s) ==
    IF \A k \in 1..Len(s) : s[k] # DOT THEN <<s>>
    ELSE LET d == CHOOSE d \in 1..Len(s) : s[d] = DOT /\ \A k \in 1..(d - 1) : s[k] # DOT
         IN  <<SubSeq(s, 1, d - 1)>> \o Split(SubSeq(s, d + 1, Len(s)))

DotsIn(s) == Cardinality({k \in 1..Len(s) : s[k] = DOT})
OnlyDigits(s) == \A k \in 1..Len(s) : s[k] \in CH_0..CH_9
OnlyDigitsAndDots(s) == \A k \in 1..Len(s) : s[k] = DOT \/ s[k] \in CH_0..CH_9

RECURSIVE StripZeros(_)
StripZeros(s) ==
    IF Len(s) > 1 /\ s[1] = CH_0 THEN StripZeros(Tail(s)) ELSE s

\* the value of at most three digits
RECURSIVE SmallValue(_)
SmallValue(s) ==
    IF s = <<>> THEN 0 ELSE SmallValue(SubSeq(s, 1, Len(s) - 1)) * 10 + (s[Len(s)] - CH_0)

ValueAtMost255(seg) ==
    LET z == StripZeros(seg) IN Len(z) <= 3 /\ SmallValue(z) <= OCTET_MAX

HasLeadingZero(seg) == Len(seg) > 1 /\ seg[1] = CH_0

IsOctetText(seg) ==
    /\ seg # <<>>
    /\ OnlyDigits(seg)
    /\ ~HasLeadingZero(seg)
    /\ ValueAtMost255(seg)

IsValidIPv4(s) ==
    /\ DotsIn(s) = 3
    /\ Len(Split(s)) = 4
    /\ \A k \in 1..4 : IsOctetText(Split(s)[k])

\* a . b . c . d of four numbers of 0..255, each in its canonical rendering
IsCanonicalRendering(seg) ==
    /\ Len(seg) \in 1..3
    /\ OnlyDigits(seg)
    /\ \E v \in 0..OCTET_MAX :
          seg = (IF v < 10 THEN <<CH_0 + v>>
                 ELSE IF v < 100 THEN <<CH_0 + (v \div 10), CH_0 + (v % 10)>>
                 ELSE <<CH_0 + (v \div 100), CH_0 + ((v \div 10) % 10), CH_0 + (v % 10)>>)
IsCanonicalQuad(s) ==
    /\ Len(Split(s)) = 4
    /\ \A k \in 1..4 : IsCanonicalRendering(Split(s)[k])

HasEmptySegment(s) ==
    /\ s # <<>>
    /\ \/ s[1] = DOT
       \/ s[Len(s)] = DOT
       \/ \E k \in 1..(Len(s) - 1) : s[k] = DOT /\ s[k + 1] = DOT

HasLeadingZeroSegment(s) ==
    \E k \in 1..Len(Split(s)) : HasLeadingZero(Split(s)[k])

\* the decimal value of a run of digits is above INT_MAX = 2147483647
RECURSIVE DigitsAbove(_, _)
DigitsAbove(a, b) ==
    IF a = <<>> THEN FALSE
    ELSE IF a[1] # b[1] THEN a[1] > b[1]
    ELSE DigitsAbove(Tail(a), Tail(b))
ExceedsInt(seg) ==
    LET z   == StripZeros(seg)
        top == Txt(<<2, 1, 4, 7, 4, 8, 3, 6, 4, 7>>)
    IN  /\ seg # <<>>
        /\ OnlyDigits(seg)
        /\ \/ Len(z) > Len(top)
           \/ Len(z) = Len(top) /\ DigitsAbove(z, top)
HasOverflowSegment(s) ==
    \E k \in 1..Len(Split(s)) : ExceedsInt(Split(s)[k])

Done(t) == pc[t] = "done" /\ ~ip[t].isNull
Cand(t) == ip[t].str

(***************************************************************************)
(* The claims.                                                             *)
(***************************************************************************)

\* C1: for all a, b, c, d in 0..255, validate_ip of their canonical decimal
\* renderings joined by single dots returns 1 (and does not fault).
C1_CanonicalAccepted ==
    \A t \in Threads :
        (pc[t] \in {"done", "fault"} /\ ~ip[t].isNull /\ IsCanonicalQuad(Cand(t))) =>
            (pc[t] = "done" /\ result[t] = 1 /\ retLine[t] = 113)

\* C1 witness: "255.0.255.255" has been accepted
C1_Witness ==
    \E t \in Threads :
        /\ Done(t) /\ result[t] = 1
        /\ Cand(t) = Join(<<Txt(<<2, 5, 5>>), Txt(<<0>>), Txt(<<2, 5, 5>>), Txt(<<2, 5, 5>>)>>)

\* C2: validate_ip returns 1 only for four segments separated by three dots,
\* each a non-empty run of ASCII digits without a leading zero (unless it is
\* "0") of value 0..255; for every other candidate it returns 0.
C2_VerdictExact ==
    \A t \in Threads :
        pc[t] = "done" =>
            /\ result[t] \in {0, 1}
            /\ result[t] = 1 <=> (~ip[t].isNull /\ IsValidIPv4(Cand(t)))

\* C2 witness: a candidate of four well-formed segments of which the last is
\* 256 has been rejected by the range check
C2_Witness ==
    \E t \in Threads :
        /\ Done(t) /\ result[t] = 0 /\ retLine[t] = 89
        /\ Len(Split(Cand(t))) = 4
        /\ Split(Cand(t))[4] = Txt(<<2, 5, 6>>)
        /\ \A k \in 1..3 : IsOctetText(Split(Cand(t))[k])

\* C3: calls of validate_ip that run interleaved on different threads each
\* return the verdict they return when run alone.
C3_VerdictAsAlone ==
    \A t \in Threads :
        pc[t] = "done" =>
            result[t] = (IF ~ip[t].isNull /\ IsValidIPv4(Cand(t)) THEN 1 ELSE 0)

\* C4: a candidate of digits and dots with an empty segment (a leading dot,
\* a trailing dot, two consecutive dots) is rejected, whatever its length.
C4_EmptySegmentRejected ==
    \A t \in Threads :
        (Done(t) /\ OnlyDigitsAndDots(Cand(t)) /\ HasEmptySegment(Cand(t))) =>
            result[t] = 0

\* C4 witness: a candidate with three dots, two of them consecutive, passed
\* the gates, the tokenizer skipped the empty segment, and the count of
\* octets rejected it
C4_Witness ==
    \E t \in Threads :
        /\ Done(t) /\ result[t] = 0 /\ retLine[t] = 109
        /\ octet_count[t] = 3
        /\ \E k \in 1..(Len(Cand(t)) - 1) : Cand(t)[k] = DOT /\ Cand(t)[k + 1] = DOT

\* C5: for every candidate validate_ip returns 0 or 1 without a fault; the
\* character scan runs at most 15 iterations, the segment loop at most 4.
C5_NoFaultBoundedLoops ==
    \A t \in Threads :
        /\ pc[t] # "fault"
        /\ i[t] <= MAX_LEN
        /\ octet_count[t] <= OCTETS
        /\ pc[t] = "done" => result[t] \in {0, 1}

\* C6: a candidate with a segment longer than one character that starts
\* with '0' is rejected, and the leading-zero rejection (line 81) is never
\* taken for a segment that is the single character "0".
C6_LeadingZeroRejected ==
    \A t \in Threads :
        Done(t) =>
            /\ HasLeadingZeroSegment(Cand(t)) => result[t] = 0
            /\ retLine[t] = 81 => HasLeadingZero(TokenStr(t))
            /\ (IsValidIPv4(Cand(t)) /\ \E k \in 1..4 : Split(Cand(t))[k] = <<CH_0>>)
                   => result[t] = 1

\* C6 witness: the segment "007" has been rejected by the leading-zero check
C6_Witness ==
    \E t \in Threads :
        /\ Done(t) /\ result[t] = 0 /\ retLine[t] = 81
        /\ TokenStr(t) = Txt(<<0, 0, 7>>)

\* C7: a candidate shorter than 7 or longer than 15 characters is rejected
\* whatever its content, before any character is classified, copied or
\* tokenized.
C7_LengthGateFirst ==
    \A t \in Threads :
        (Done(t) /\ (Len(Cand(t)) < 7 \/ Len(Cand(t)) > 15)) =>
            /\ result[t] = 0
            /\ retLine[t] = 36
            /\ i[t] = 0 /\ dot_count[t] = 0
            /\ ip_copy[t] = <<>>
            /\ token[t] = NullPtr /\ strtok_save = NullPtr

\* C7 witness: a candidate of 16 characters that holds three dots has been
\* rejected
C7_Witness ==
    \E t \in Threads :
        /\ Done(t) /\ result[t] = 0
        /\ Len(Cand(t)) = 16 /\ DotsIn(Cand(t)) = 3

\* C8: a candidate of 7..15 digits and dots with three dots that holds a
\* segment whose value no int holds is rejected, and no such segment passes
\* the round-trip comparison, whatever atoi made of it.
C8_OverflowRejected ==
    \A t \in Threads :
        /\ (Done(t) /\ Len(Cand(t)) \in 7..15 /\ OnlyDigitsAndDots(Cand(t))
              /\ DotsIn(Cand(t)) = 3 /\ HasOverflowSegment(Cand(t))) => result[t] = 0
        /\ pc[t] = "L102" => ~ExceedsInt(TokenStr(t))

\* C8 witness: 4294967551 was converted to 255 and the round-trip comparison
\* rejected it
C8_Witness ==
    \E t \in Threads :
        /\ Done(t) /\ result[t] = 0 /\ retLine[t] = 98
        /\ TokenStr(t) = Txt(<<4, 2, 9, 4, 9, 6, 7, 5, 5, 1>>)
        /\ num[t] = OCTET_MAX

\* C9 as stated: for a candidate that passed the three gates, the round-trip
\* rejection (line 98) is never taken.
C9_RoundTripNeverTaken ==
    \A t \in Threads :
        (Done(t) /\ OnlyDigitsAndDots(Cand(t))) => retLine[t] # 98

\* C9 as amended: for a candidate of ASCII digits and dots, a segment that
\* reaches the round-trip comparison and whose value an int holds renders
\* back to its own text; the round-trip rejection is taken only for a
\* segment whose value no int holds.
C9_RoundTripOnlyOnOverflow ==
    \A t \in Threads :
        /\ (pc[t] = "L97" /\ OnlyDigitsAndDots(Cand(t)) /\ ~ExceedsInt(TokenStr(t)))
              => ~RoundTripMismatch(temp[t], TokenStr(t))
        /\ (pc[t] = "done" /\ retLine[t] = 98 /\ OnlyDigitsAndDots(Cand(t)))
              => ExceedsInt(TokenStr(t))

\* C9 witness: the segment "255" passed the round-trip comparison
C9_Witness ==
    \E t \in Threads :
        /\ pc[t] = "L102"
        /\ OnlyDigitsAndDots(Cand(t))
        /\ TokenStr(t) = Txt(<<2, 5, 5>>)
        /\ CStr(temp[t], 1) = Txt(<<2, 5, 5>>)

\* C10: nothing is written past ip_copy[16] or temp[4]: the copy is reached
\* only with a length of at most 15, the sprintf only with 0 <= num <= 255.
C10_NoBufferOverflow ==
    \A t \in Threads :
        /\ Len(ip_copy[t]) <= IP_COPY_SIZE
        /\ Len(temp[t]) <= TEMP_SIZE
        /\ pc[t] = "L41" => Len(Cand(t)) + 1 <= IP_COPY_SIZE
        /\ pc[t] = "L96" => (num[t] >= 0 /\ num[t] <= OCTET_MAX)

\* C10 witness: both buffers have been filled to their last byte
C10_Witness ==
    \E t \in Threads :
        /\ Len(ip_copy[t]) = IP_COPY_SIZE
        /\ Len(temp[t]) = TEMP_SIZE

====
